---- MODULE Spec2Model ----
(***************************************************************************)
(* Model of the real-time multimodal emotion detector: the audio ingest    *)
(* pipeline (audio_capture.py), the heuristic voice classifier             *)
(* (voice_detector.py) and the fusion rule (emotion_fusion.py).            *)
(*                                                                         *)
(* Samples are not modelled by value in the ingest pipeline: a sample is   *)
(* named by its position in the device stream, and a list of samples is a  *)
(* sequence of runs <<lo, hi>> (positions lo .. hi-1), adjacent runs       *)
(* merged.  Block number b of the device holds positions                   *)
(* b*chunk_size .. (b+1)*chunk_size - 1.                                   *)
(***************************************************************************)
EXTENDS Integers, Sequences, FiniteSets, TLC

\* ------------------------------------------------------------ constants
sample_rate == 16000
chunk_size == 1024
buffer_duration == 3
queue_maxsize == 10
recent_samples == sample_rate
target_samples == sample_rate * buffer_duration

\* -------------------------------------------------------------- bounds
\* number of blocks the device delivers in a run
MaxBlocks == 80
\* number of callbacks that may find the ingest queue full in a run
MaxOverflows == 1
\* number of blocks the device delivers in a run that is shut down
MaxShutdownBlocks == 12
\* number of windows the classifier analyses in a run
MaxWindows == 4
\* number of frames the main loop handles in a run of decision cycles
MaxFrames == 2
\* number of windows the classifier analyses in a run of decision cycles
MaxFrameWindows == 1
MaxDispatchFrames == 3
MaxTakes == 4
MaxRenderFaults == 1
MaxOverflowFrames == 8
MaxOverflowTakes == 11
\* number of windows the classifier analyses in a run that reads its estimate
MaxGetterWindows == 2
\* number of windows the classifier analyses in a run with failing descriptors
MaxDescriptorWindows == 2
\* number of windows the classifier analyses in a run with rejected windows
MaxRejectWindows == 3
\* numbers of decision cycles and of events taken in a run with speech
\* switched off and on
MaxDisabledFrames == 3
MaxDisabledTakes == 3
\* number of decision cycles in a run on unchanging estimates
MaxSteadyFrames == 4
\* number of windows the classifier scores in a run on unchanging audio
MaxStaticWindows == 16
\* number of windows the classifier scores in a run that fills its history
MaxHistoryWindows == 12
\* blocks, frames and takes in a run with faults
MaxFaultBlocks == 48
MaxFaultFrames == 2
MaxFaultTakes == 2

VARIABLES
    recording,      \* AudioCapture.recording
    stream,         \* AudioCapture.stream: "none", "active" or "closed"
    audio_queue,    \* AudioCapture.audio_queue: block numbers, oldest first
    at_pc,          \* audio thread (start_capture): "start", "open", "loop", "get", "exit"
    audio_buffer,   \* start_capture's local audio_buffer (runs of positions)
    forwarded,      \* windows handed to voice_detector.process_audio, in order
    cb_pc,          \* device thread (_audio_callback): "idle", "put", "full", "got"
    cb_chunk,       \* the block the callback in flight holds
    cb_steps,       \* queue operations the callback in flight has made
    next_block,     \* number of the next block the device delivers
    overflows,      \* callbacks that found the queue full so far
    st_pc,          \* main thread (stop_capture): "idle", "flag", "done"
    consumed,       \* history: every sample the consumer appended, in order
    fresh,          \* history: a block was accepted since the last window was forwarded
    current_emotion,   \* VoiceDetector.current_emotion: None or an estimate
    emotion_sequence,  \* VoiceDetector.emotion_sequence: labels, oldest first
    processing_count,  \* VoiceDetector.processing_count
    emotion_result,    \* process_audio's emotion_result of the last window analysed
    heard,             \* history: len and volume of the last window passed in,
                       \* and the descriptor whose computation raised on it
    loop_pc,           \* main thread in start(): "detect", "fuse", "speak", "key",
                       \* "toggle_say", "test_say", "test", "cleanup", "clear",
                       \* "stopped"
    face_result,       \* start()'s face_result of the frame
    voice_result,      \* start()'s voice_result of the frame
    final_emotion,     \* start()'s final_emotion of the frame
    frame_time,        \* start()'s current_time of the frame, in tenths of a second
    frame_count,       \* start()'s frame_count
    test_index,        \* the test loops' position in their list of emotions
    main_exception,    \* the exception that left start()'s loop: "" or where it was raised
    main_current_emotion,  \* MultimodalEmotionDetector.current_emotion: the label last spoken
    last_spoken_time,      \* MultimodalEmotionDetector.last_spoken_time
    last_face_emotion,     \* MultimodalEmotionDetector.last_face_emotion
    last_voice_emotion,    \* MultimodalEmotionDetector.last_voice_emotion
    emotion_speak_count,   \* MultimodalEmotionDetector.emotion_speak_count
    should_speak,          \* continuous_speak_emotion's should_speak of the last cycle
    speak_reason,          \* continuous_speak_emotion's speak_reason of the last cycle
    message,               \* execute_emotion_speaking's message of the last announcement
    enabled,           \* TextToSpeech.enabled
    engine,            \* TextToSpeech.engine is set (pyttsx3 was initialised)
    speak_queue,       \* TextToSpeech.speak_queue: events, oldest first
    emotion_count,     \* TextToSpeech.emotion_count
    tts_pc,            \* speak_emotion_now in flight: "idle", "trim", "get", "put"
    pending,           \* the event speak_emotion_now in flight holds
    submitted,         \* history: number of calls of speak_emotion_now
    immediate_message, \* the message speak_now in flight renders, or ""
    immediate_count,   \* history: number of renders speak_now completed
    last_immediate,    \* history: the message speak_now rendered last, or ""
    worker_pc,         \* each worker (_speaking_worker): "get", "say" (about to
                       \* render), "run" (rendering)
    worker_event,      \* the event each worker holds, or NoEvent
    speaking,          \* TextToSpeech.speaking
    taken_count,       \* history: how many events workers dequeued
    last_taken,        \* history: the number of the event a worker dequeued last
    rendered_count,    \* history: how many events workers rendered
    render_faults,     \* history: number of renders of workers that raised
    last_faulted,      \* history: the worker whose render raised last, or 0
    loop_faults        \* history: number of iterations of the audio thread that raised

ingest_vars == <<recording, stream, audio_queue, at_pc, audio_buffer, forwarded,
                 cb_pc, cb_chunk, cb_steps, next_block, overflows, st_pc,
                 consumed, fresh, loop_faults>>

voice_vars == <<current_emotion, emotion_sequence, processing_count,
                emotion_result, heard>>

frame_vars == <<loop_pc, face_result, voice_result, final_emotion, frame_time,
                frame_count, test_index,
                main_exception>>

speech_vars == <<main_current_emotion, last_spoken_time, last_face_emotion,
                 last_voice_emotion, emotion_speak_count, should_speak,
                 speak_reason, message>>

worker_vars == <<worker_pc, worker_event, speaking, taken_count, last_taken,
                 rendered_count, render_faults, last_faulted>>
tts_vars == <<enabled, engine, speak_queue, emotion_count, tts_pc, pending,
              submitted, immediate_message, immediate_count, last_immediate,
              worker_vars>>

vars == <<ingest_vars, voice_vars, frame_vars, speech_vars, tts_vars>>

\* ------------------------------------------------------ lists of samples
Min(a, b) == IF a < b THEN a ELSE b
Max(a, b) == IF a > b THEN a ELSE b

\* indata[:, 0] of block b
BlockRun(b) == <<b * chunk_size, (b + 1) * chunk_size>>

RECURSIVE RunsLen(_)
\* len(list)
RunsLen(runs) ==
    IF runs = <<>> THEN 0
    ELSE (runs[Len(runs)][2] - runs[Len(runs)][1])
         + RunsLen(SubSeq(runs, 1, Len(runs) - 1))

\* list.extend(chunk)
Extend(runs, run) ==
    IF runs # <<>> /\ runs[Len(runs)][2] = run[1]
    THEN [runs EXCEPT ![Len(runs)] = <<@[1], run[2]>>]
    ELSE Append(runs, run)

RECURSIVE LastN(_, _)
\* list[-n:] for n > 0
LastN(runs, n) ==
    IF runs = <<>> THEN <<>>
    ELSE LET last == runs[Len(runs)]
             l == last[2] - last[1]
         IN IF l >= n THEN << <<last[2] - n, last[2]>> >>
            ELSE LET front == LastN(SubSeq(runs, 1, Len(runs) - 1), n - l)
                 IN IF front = <<>> THEN <<last>> ELSE Extend(front, last)

\* ------------------------------------------------------- queue.Queue
\* put(item, block=blocking) can complete: a blocking put waits for a free slot
PutReady(q, blocking) == blocking => Len(q) < queue_maxsize
\* put(item, block=False) raises queue.Full
PutFull(q) == Len(q) >= queue_maxsize

\* ------------------------------------------------------- AudioCapture
\* mutant: the callback's puts wait for a free slot
CallbackPutBlocks_Waits == TRUE

\* the block= argument of the callback's puts
CallbackPutBlocks == FALSE

\* mutant: the whole accumulator is handed on
WindowOf_Whole(buf) == buf

\* audio_buffer[-target_samples:], the window handed on
WindowOf(buf) == LastN(buf, target_samples)

\* mutant: the accumulator is not cut
CarryOver_Whole(buf) == buf

\* audio_buffer[-self.sample_rate:], the carry-over
CarryOver(buf) == LastN(buf, recent_samples)

\* mutant: the carry-over length is taken for the window length
WindowReady_CarryLength(buf) == RunsLen(buf) >= recent_samples

\* len(audio_buffer) >= target_samples
WindowReady(buf) == RunsLen(buf) >= target_samples

IngestInit ==
    /\ recording = FALSE
    /\ stream = "none"
    /\ audio_queue = <<>>
    /\ at_pc = "start"
    /\ audio_buffer = <<>>
    /\ forwarded = <<>>
    /\ cb_pc = "idle"
    /\ cb_chunk = -1
    /\ cb_steps = 0
    /\ next_block = 0
    /\ overflows = 0
    /\ st_pc = "idle"
    /\ consumed = <<>>
    /\ fresh = FALSE
    /\ loop_faults = 0

\* start_capture, line 53: self.recording = True
StartRecording ==
    /\ at_pc = "start"
    /\ recording' = TRUE
    /\ at_pc' = "open"
    /\ UNCHANGED <<stream, audio_queue, audio_buffer, forwarded, cb_pc, cb_chunk,
                   cb_steps, next_block, overflows, st_pc, consumed, fresh>>
    /\ UNCHANGED <<loop_faults, voice_vars, frame_vars, speech_vars, tts_vars>>

\* start_capture, lines 56-69: the stream is created and started, the buffer is empty
StartStream ==
    /\ at_pc = "open"
    /\ stream' = "active"
    /\ audio_buffer' = <<>>
    /\ at_pc' = "loop"
    /\ UNCHANGED <<recording, audio_queue, forwarded, cb_pc, cb_chunk, cb_steps,
                   next_block, overflows, st_pc, consumed, fresh>>
    /\ UNCHANGED <<loop_faults, voice_vars, frame_vars, speech_vars, tts_vars>>

\* start_capture, line 71: while self.recording
LoopCheck ==
    /\ at_pc = "loop"
    /\ at_pc' = IF recording THEN "get" ELSE "exit"
    /\ UNCHANGED <<recording, stream, audio_queue, audio_buffer, forwarded, cb_pc,
                   cb_chunk, cb_steps, next_block, overflows, st_pc, consumed, fresh>>
    /\ UNCHANGED <<loop_faults, voice_vars, frame_vars, speech_vars, tts_vars>>

\* start_capture, lines 74-90: one block is taken and appended; a full buffer
\* is forwarded and cut to its carry-over
LoopChunk ==
    /\ at_pc = "get"
    /\ audio_queue # <<>>
    /\ LET chunk == BlockRun(Head(audio_queue))
           buf == Extend(audio_buffer, chunk)
       IN /\ audio_queue' = Tail(audio_queue)
          /\ consumed' = Extend(consumed, chunk)
          /\ IF WindowReady(buf)
             THEN /\ forwarded' = Append(forwarded,
                        [window |-> WindowOf(buf), fresh |-> fresh])
                  /\ audio_buffer' = CarryOver(buf)
                  /\ fresh' = FALSE
             ELSE /\ forwarded' = forwarded
                  /\ audio_buffer' = buf
                  /\ fresh' = fresh
    /\ at_pc' = "loop"
    /\ UNCHANGED <<recording, stream, cb_pc, cb_chunk, cb_steps, next_block,
                   overflows, st_pc>>
    /\ UNCHANGED <<loop_faults, voice_vars, frame_vars, speech_vars, tts_vars>>

\* start_capture, lines 74-94: an iteration that took a block raises, in
\* extend (line 77, the buffer is as it was) or, with a window due, on the way
\* to the classifier (lines 82-86, the buffer holds the block and is not cut);
\* the exception is reported at lines 93-94; blocks is the set of the blocks
\* whose handling may raise
LoopRaises(blocks) ==
    /\ at_pc = "get"
    /\ audio_queue # <<>>
    /\ Head(audio_queue) \in blocks
    /\ loop_faults' = loop_faults + 1
    /\ audio_queue' = Tail(audio_queue)
    /\ LET chunk == BlockRun(Head(audio_queue))
           buf == Extend(audio_buffer, chunk)
       IN \/ UNCHANGED <<audio_buffer, consumed>>
          \/ /\ WindowReady(buf)
             /\ audio_buffer' = buf
             /\ consumed' = Extend(consumed, chunk)
    /\ at_pc' = "loop"
    /\ UNCHANGED <<recording, stream, forwarded, cb_pc, cb_chunk, cb_steps,
                   next_block, overflows, st_pc, fresh>>
    /\ UNCHANGED <<voice_vars, frame_vars, speech_vars, tts_vars>>

\* start_capture, lines 74, 91-92: get(timeout=0.1) raises queue.Empty
LoopEmpty ==
    /\ at_pc = "get"
    /\ audio_queue = <<>>
    /\ at_pc' = "loop"
    /\ UNCHANGED <<recording, stream, audio_queue, audio_buffer, forwarded, cb_pc,
                   cb_chunk, cb_steps, next_block, overflows, st_pc, consumed, fresh>>
    /\ UNCHANGED <<loop_faults, voice_vars, frame_vars, speech_vars, tts_vars>>

\* _audio_callback, lines 100-107: the device delivers a block; it is ignored
\* unless recording (an ignored block is not numbered: recording is never set
\* again once the stream is active)
DeviceCallback(maxBlocks, maxOverflows) ==
    /\ cb_pc = "idle"
    /\ stream = "active"
    /\ next_block < maxBlocks
    /\ Len(audio_queue) < queue_maxsize \/ overflows < maxOverflows
    /\ IF recording
       THEN /\ cb_pc' = "put"
            /\ cb_chunk' = next_block
            /\ next_block' = next_block + 1
            /\ cb_steps' = 0
            /\ fresh' = TRUE
       ELSE UNCHANGED <<cb_pc, cb_chunk, next_block, cb_steps, fresh>>
    /\ UNCHANGED <<recording, stream, audio_queue, at_pc, audio_buffer, forwarded,
                   overflows, st_pc, consumed>>
    /\ UNCHANGED <<loop_faults, voice_vars, frame_vars, speech_vars, tts_vars>>

AudioCallback == DeviceCallback(MaxBlocks, MaxOverflows)

\* _audio_callback, lines 110-112: put(audio_chunk, block=False)
CallbackPut ==
    /\ cb_pc = "put"
    /\ PutReady(audio_queue, CallbackPutBlocks)
    /\ cb_steps' = cb_steps + 1
    /\ IF PutFull(audio_queue)
       THEN /\ cb_pc' = "full"
            /\ overflows' = overflows + 1
            /\ audio_queue' = audio_queue
       ELSE /\ cb_pc' = "idle"
            /\ overflows' = overflows
            /\ audio_queue' = Append(audio_queue, cb_chunk)
    /\ UNCHANGED <<recording, stream, at_pc, audio_buffer, forwarded, cb_chunk,
                   next_block, st_pc, consumed, fresh>>
    /\ UNCHANGED <<loop_faults, voice_vars, frame_vars, speech_vars, tts_vars>>

\* _audio_callback, lines 114-118: get_nowait(); queue.Empty is passed over
CallbackGetNowait ==
    /\ cb_pc = "full"
    /\ cb_steps' = cb_steps + 1
    /\ IF audio_queue = <<>>
       THEN cb_pc' = "idle" /\ audio_queue' = audio_queue
       ELSE cb_pc' = "got" /\ audio_queue' = Tail(audio_queue)
    /\ UNCHANGED <<recording, stream, at_pc, audio_buffer, forwarded, cb_chunk,
                   next_block, overflows, st_pc, consumed, fresh>>
    /\ UNCHANGED <<loop_faults, voice_vars, frame_vars, speech_vars, tts_vars>>

\* _audio_callback, line 116: put(audio_chunk, block=False) after the get;
\* a queue.Full here is not caught and ends the callback
CallbackPutAgain ==
    /\ cb_pc = "got"
    /\ PutReady(audio_queue, CallbackPutBlocks)
    /\ cb_steps' = cb_steps + 1
    /\ cb_pc' = "idle"
    /\ audio_queue' = IF PutFull(audio_queue) THEN audio_queue
                      ELSE Append(audio_queue, cb_chunk)
    /\ UNCHANGED <<recording, stream, at_pc, audio_buffer, forwarded, cb_chunk,
                   next_block, overflows, st_pc, consumed, fresh>>
    /\ UNCHANGED <<loop_faults, voice_vars, frame_vars, speech_vars, tts_vars>>

\* stop_capture, line 130: self.recording = False
StopFlag ==
    /\ st_pc = "idle"
    /\ recording' = FALSE
    /\ st_pc' = "flag"
    /\ UNCHANGED <<stream, audio_queue, at_pc, audio_buffer, forwarded, cb_pc,
                   cb_chunk, cb_steps, next_block, overflows, consumed, fresh>>
    /\ UNCHANGED <<loop_faults, voice_vars, frame_vars, speech_vars, tts_vars>>

\* stop_capture, lines 132-137: the stream, if there is one, is stopped and closed
StopStream ==
    /\ st_pc = "flag"
    /\ stream' = IF stream = "none" THEN "none" ELSE "closed"
    /\ st_pc' = "done"
    /\ UNCHANGED <<recording, audio_queue, at_pc, audio_buffer, forwarded, cb_pc,
                   cb_chunk, cb_steps, next_block, overflows, consumed, fresh>>
    /\ UNCHANGED <<loop_faults, voice_vars, frame_vars, speech_vars, tts_vars>>

\* ------------------------------------------------------------ numbers
\* Scores are held in units of 1/10000 and confidences in units of 1/100000,
\* every confidence a multiple of 10, so that the products by 0.7, 0.3, 0.8
\* and 1.1 are exact.  Volume and rms are in units of 1/1000, energy (rms
\* squared) in units of 1/1000000, zero crossings, rolloff and pitch variation
\* in units of 1/100, the clock in seconds.
ScoreOne == 100 * 100
One == 10 * ScoreOne

\* ------------------------------------------------------- VoiceDetector
\* the keys of the emotions dict, in insertion order
EmotionOrder == <<"neutral", "happy", "sad", "angry", "surprise", "fear", "disgust">>
Emotions == {EmotionOrder[i] : i \in 1..Len(EmotionOrder)}

\* Python's None, as a record so that it compares with an estimate
None == [emotion |-> "none", confidence |-> 0]

min_samples == 1000
silence_threshold == 5
boost_ceiling == 30000
confidence_ceiling == 92000
history_limit == 10
score_floor == 500
jitter_low == -800
jitter_high == 1200
cycle_seconds == 15

\* a score for each emotion, built at once: a dict of emotion scores is the
\* tuple of its values in the order of its keys
Scores(f) == <<f[1], f[2], f[3], f[4], f[5], f[6], f[7]>>

\* what emotions[key] += ... adds to key number i, for the keys b names
BonusOf(b, i) == IF EmotionOrder[i] \in DOMAIN b THEN b[EmotionOrder[i]] ELSE 0

\* _calculate_realtime_emotions
calculate_realtime_emotions(volume, energy, zero_crossings, spectral_rolloff, pitch_variation) ==
    LET base == <<1500, 1400, 1300, 1200, 1100, 1000, 900>>
        byVolume ==
            IF volume > 300
            THEN [angry |-> 2500, surprise |-> 2000, happy |-> 1500]
            ELSE IF volume > 150
            THEN [happy |-> 2000, neutral |-> 1500]
            ELSE [sad |-> 2500, fear |-> 1500, neutral |-> 1000]
        byEnergy ==
            IF energy > 20000
            THEN [angry |-> 2000, happy |-> 1800, surprise |-> 1200]
            ELSE IF energy < 5000
            THEN [sad |-> 2200, fear |-> 1500]
            ELSE <<>>
        byCrossings ==
            IF zero_crossings > 15
            THEN [angry |-> 2500, disgust |-> 1500]
            ELSE IF zero_crossings < 5
            THEN [happy |-> 2000, neutral |-> 1000]
            ELSE <<>>
        byRolloff ==
            IF spectral_rolloff > 60
            THEN [happy |-> 2200, surprise |-> 1800]
            ELSE IF spectral_rolloff < 30
            THEN [sad |-> 2000, fear |-> 1500]
            ELSE <<>>
        byPitch ==
            IF pitch_variation > 70
            THEN [surprise |-> 2500, fear |-> 1800, happy |-> 1200]
            ELSE IF pitch_variation < 30
            THEN [sad |-> 2000, neutral |-> 1500]
            ELSE <<>>
    IN Scores([i \in DOMAIN EmotionOrder |->
                  base[i] + BonusOf(byVolume, i) + BonusOf(byEnergy, i)
                  + BonusOf(byCrossings, i) + BonusOf(byRolloff, i)
                  + BonusOf(byPitch, i)])

\* time_cycle < tenths / 10, where time_cycle = (current_time % 15) / 15
CycleBelow(current_time, tenths) ==
    (current_time % cycle_seconds) * 10 < tenths * cycle_seconds

\* _add_realtime_variety, lines 177-192: the bonus of the clock's phase
PhaseBonus(current_time) ==
    IF CycleBelow(current_time, 2) THEN [happy |-> 1500, surprise |-> 1000]
    ELSE IF CycleBelow(current_time, 4) THEN [neutral |-> 1200]
    ELSE IF CycleBelow(current_time, 6) THEN [sad |-> 1500, fear |-> 800]
    ELSE IF CycleBelow(current_time, 8) THEN [angry |-> 1800, disgust |-> 1000]
    ELSE [surprise |-> 2000, fear |-> 1000]

\* list.count(label)
Count(seq, label) == Cardinality({i \in 1..Len(seq) : seq[i] = label})

\* _add_realtime_variety, lines 195-197: the repetition test
Repeated(seq) == Len(seq) > 2 /\ Count(seq, seq[Len(seq)]) >= 2

\* _add_realtime_variety, lines 198-203: the last label is damped, the others raised
Damp(score, emotion, last) ==
    IF emotion = last THEN (score * 7) \div 10 ELSE (score * 11) \div 10

\* _add_realtime_variety, lines 206-208: jitter, then the floor
Jitter(score, jitter) == Max(score_floor, score + jitter)

\* _add_realtime_variety, before the normalisation of lines 211-213
add_realtime_variety(scores, current_time, seq, jitter) ==
    LET phase == PhaseBonus(current_time)
        Phased(i) == scores[i] + BonusOf(phase, i)
        Damped(i) == IF Repeated(seq) THEN Damp(Phased(i), EmotionOrder[i], seq[Len(seq)])
                     ELSE Phased(i)
    IN Scores([i \in DOMAIN EmotionOrder |-> Jitter(Damped(i), jitter[i])])

RECURSIVE SumOver(_, _)
\* sum(emotion_scores.values())
SumOver(scores, n) ==
    IF n = 0 THEN 0 ELSE scores[n] + SumOver(scores, n - 1)

\* emotion_scores[key] / total of lines 211-213, as a confidence
Normalised(scores, i) ==
    ((scores[i] * ScoreOne) \div SumOver(scores, Len(scores))) * 10

\* max(emotion_scores, key=emotion_scores.get): the first key of the largest score
BestEmotion(scores) ==
    CHOOSE i \in 1..Len(scores) :
        /\ \A j \in 1..Len(scores) : scores[j] <= scores[i]
        /\ \A j \in 1..(i - 1) : scores[j] < scores[i]

\* mutant: the silence threshold is compared with the wrong scale
Silent_WrongScale(volume) == volume * 10 < silence_threshold

\* line 75: volume < 0.005
Silent(volume) == volume < silence_threshold

\* lines 91-92: the boost and the ceiling
FinalConfidence(base_confidence, volume, rms) ==
    Min(confidence_ceiling,
        base_confidence + Min(boost_ceiling, volume * 200 + rms * 150))

\* mutant: nothing is evicted
Remember_KeepsAll(seq, label) == Append(seq, label)

\* lines 95-97: the history keeps its last 10 labels
Remember(seq, label) ==
    LET longer == Append(seq, label)
    IN IF Len(longer) > history_limit THEN Tail(longer) ELSE longer

\* lines 87-104: the estimate made of the final scores
Estimate(emotion_scores, volume, rms) ==
    LET best_emotion == BestEmotion(emotion_scores)
    IN [emotion |-> EmotionOrder[best_emotion],
        confidence |-> FinalConfidence(Normalised(emotion_scores, best_emotion),
                                       volume, rms)]

\* the descriptors of a window, in the order of their computation; a window
\* names in raises the one whose computation raises an exception, "" if none
Descriptors ==
    {"volume", "energy", "zero_crossings", "spectral_rolloff", "pitch_variation"}

\* what the two helpers return when they catch an exception (0.5)
helper_default == 50

\* _simple_spectral_rolloff
simple_spectral_rolloff(w) ==
    IF w.raises = "spectral_rolloff" THEN helper_default ELSE w.spectral_rolloff

\* _estimate_pitch_variation
estimate_pitch_variation(w) ==
    IF w.raises = "pitch_variation" THEN helper_default ELSE w.pitch_variation

\* lines 65-70: volume, energy and the zero-crossing rate are computed in the
\* body of _analyze_audio_realtime; an exception there goes to line 106
RaisesInBody(w) == w.raises \in {"volume", "energy", "zero_crossings"}

\* _analyze_audio_realtime: the estimate of a window, or None; each stage's
\* scores are computed once and handed to the next
analyze_audio_realtime(w, current_time, seq, jitter) ==
    IF RaisesInBody(w) THEN None
    ELSE IF Silent(w.volume) THEN None
    ELSE CHOOSE result \in
             {Estimate(emotion_scores, w.volume, w.rms) :
                 emotion_scores \in
                     {add_realtime_variety(rule_scores, current_time, seq, jitter) :
                         rule_scores \in
                             {calculate_realtime_emotions(w.volume, w.rms * w.rms,
                                  w.zero_crossings, simple_spectral_rolloff(w),
                                  estimate_pitch_variation(w))}}} : TRUE

VoiceInit ==
    /\ current_emotion = None
    /\ emotion_sequence = <<>>
    /\ processing_count = 0
    /\ emotion_result = None
    /\ heard = [len |-> 0, volume |-> 0, raises |-> ""]

\* the windows tried: one too short, one silent, one at the silence threshold
\* (quiet, smooth, dark, monotone) and one loud, harsh, bright and variable
Windows ==
    {[len |-> min_samples - 1, volume |-> 400, rms |-> 300, zero_crossings |-> 10,
      spectral_rolloff |-> 50, pitch_variation |-> 50, raises |-> ""],
     [len |-> target_samples, volume |-> 4, rms |-> 2, zero_crossings |-> 10,
      spectral_rolloff |-> 50, pitch_variation |-> 50, raises |-> ""],
     [len |-> target_samples, volume |-> 5, rms |-> 3, zero_crossings |-> 2,
      spectral_rolloff |-> 20, pitch_variation |-> 20, raises |-> ""],
     [len |-> target_samples, volume |-> 400, rms |-> 300, zero_crossings |-> 20,
      spectral_rolloff |-> 70, pitch_variation |-> 80, raises |-> ""]}

\* the clock readings tried: one in each phase of the cycle
Times == {t \in 0..(cycle_seconds - 1) : t % 3 = 1}

\* the draws of random.uniform(-0.08, 0.12) tried: all at 0, or one emotion
\* (the first or the last key) at the top of the range and the others at the
\* bottom
Jitters ==
    {Scores([i \in DOMAIN EmotionOrder |-> 0])}
    \cup {Scores([i \in DOMAIN EmotionOrder |->
                      IF i = f THEN jitter_high ELSE jitter_low]) :
          f \in {1, Len(EmotionOrder)}}

\* mutant: whatever the analysis returns is stored
Stored_Always(result) == TRUE

\* process_audio, line 45: if emotion_result
Stored(result) == result # None

\* process_audio, with the window's descriptors, the clock and the random draws
\* taken from the sets given; a window that is not scored is tried with one
\* clock reading and one draw only
Classify(windows, times, jitters, maxWindows) ==
    /\ processing_count < maxWindows
    /\ \E w \in windows, current_time \in times, jitter \in jitters :
        /\ w.len < min_samples \/ Silent(w.volume)
              => /\ \A t \in times : current_time <= t
                 /\ jitter = Scores([i \in DOMAIN EmotionOrder |-> 0])
        /\ heard' = [len |-> w.len, volume |-> w.volume, raises |-> w.raises]
        /\ IF w.len < min_samples
           THEN /\ emotion_result' = None
                /\ UNCHANGED <<current_emotion, emotion_sequence, processing_count>>
           ELSE LET result == analyze_audio_realtime(w, current_time,
                                                     emotion_sequence, jitter)
                IN /\ processing_count' = processing_count + 1
                   /\ emotion_result' = result
                   /\ IF ~Stored(result)
                      THEN UNCHANGED <<current_emotion, emotion_sequence>>
                      ELSE /\ current_emotion' = result
                           /\ emotion_sequence' =
                                  Remember(emotion_sequence, result.emotion)
    /\ UNCHANGED <<ingest_vars, frame_vars, speech_vars, tts_vars>>

ProcessAudio == Classify(Windows, Times, Jitters, MaxWindows)

\* ------------------------------------------------------- EmotionFusion
face_weight == 7
voice_weight == 3
single_source_discount == 8
agreement_bonus == 2

\* the tenths t of a confidence c: c * 0.t
Tenths(c, t) == (c * t) \div 10

\* mutant: a single source keeps its confidence
SingleSource_NoDiscount(result, source) ==
    [emotion |-> result.emotion, confidence |-> result.confidence,
     source |-> source]

\* fuse_emotions, lines 18-30: one source only
SingleSource(result, source) ==
    [emotion |-> result.emotion,
     confidence |-> Tenths(result.confidence, single_source_discount),
     source |-> source]

\* mutant: the agreement confidence is not clamped
Agreement_NoClamp(face, voice) ==
    [emotion |-> face.emotion,
     confidence |-> Tenths(face.confidence, face_weight)
                    + Tenths(voice.confidence, voice_weight)
                    + Tenths(One, agreement_bonus),
     source |-> "agreement"]

\* mutant: the agreement bonus is forgotten
Agreement_NoBonus(face, voice) ==
    [emotion |-> face.emotion,
     confidence |-> Min(One, Tenths(face.confidence, face_weight)
                             + Tenths(voice.confidence, voice_weight)),
     source |-> "agreement"]

\* fuse_emotions, lines 39-49: both sources, the same label
Agreement(face, voice) ==
    [emotion |-> face.emotion,
     confidence |-> Min(One, Tenths(face.confidence, face_weight)
                             + Tenths(voice.confidence, voice_weight)
                             + Tenths(One, agreement_bonus)),
     source |-> "agreement"]

\* mutant: the face wins a tie
Dominant_FaceOnTie(face, voice) ==
    LET face_weighted == Tenths(face.confidence, face_weight)
        voice_weighted == Tenths(voice.confidence, voice_weight)
    IN IF face_weighted >= voice_weighted
       THEN [emotion |-> face.emotion, confidence |-> face_weighted,
             source |-> "face_dominant"]
       ELSE [emotion |-> voice.emotion, confidence |-> voice_weighted,
             source |-> "voice_dominant"]

\* mutant: the winner keeps its own confidence
Dominant_Unweighted(face, voice) ==
    LET face_weighted == Tenths(face.confidence, face_weight)
        voice_weighted == Tenths(voice.confidence, voice_weight)
    IN IF face_weighted > voice_weighted
       THEN [emotion |-> face.emotion, confidence |-> face.confidence,
             source |-> "face_dominant"]
       ELSE [emotion |-> voice.emotion, confidence |-> voice.confidence,
             source |-> "voice_dominant"]

\* fuse_emotions, lines 50-66: both sources, different labels
Dominant(face, voice) ==
    LET face_weighted == Tenths(face.confidence, face_weight)
        voice_weighted == Tenths(voice.confidence, voice_weight)
    IN IF face_weighted > voice_weighted
       THEN [emotion |-> face.emotion, confidence |-> face_weighted,
             source |-> "face_dominant"]
       ELSE [emotion |-> voice.emotion, confidence |-> voice_weighted,
             source |-> "voice_dominant"]

\* the fused result when there is none
NoFusion == [emotion |-> "none", confidence |-> 0, source |-> "none"]

\* fuse_emotions
fuse_emotions(face, voice) ==
    IF face = None /\ voice = None THEN NoFusion
    ELSE IF face = None THEN SingleSource(voice, "voice_only")
    ELSE IF voice = None THEN SingleSource(face, "face_only")
    ELSE IF face.emotion = voice.emotion THEN Agreement(face, voice)
    ELSE Dominant(face, voice)

\* ------------------------------------------------------- TextToSpeech
speak_queue_maxsize == 50
speak_queue_keep == 10

\* a text: a template with the emotion it names
Text(template, emotion) == [template |-> template, emotion |-> emotion]

\* speak_emotion_now, lines 64-69: the messages list
TtsMessages == <<"%s", "%s detected", "Emotion %s", "%s emotion">>

\* no event
NoEvent == [message |-> Text("", "none"), seq |-> 0]

\* __init__, line 38: for i in range(2), the worker threads
num_workers == 2
Workers == 1..num_workers

\* queue.Queue: full()
QueueFull(q, maxsize) == Len(q) >= maxsize

\* TextToSpeech.__init__; engines holds TRUE when pyttsx3 can be initialised
\* and FALSE when it cannot
TtsInit(engines) ==
    /\ enabled = TRUE
    /\ engine \in engines
    /\ speak_queue = <<>>
    /\ emotion_count = 0
    /\ tts_pc = "idle"
    /\ pending = NoEvent
    /\ submitted = 0
    /\ immediate_message = ""
    /\ immediate_count = 0
    /\ last_immediate = ""
    /\ worker_pc = [w \in Workers |-> "get"]
    /\ worker_event = [w \in Workers |-> NoEvent]
    /\ speaking = FALSE
    /\ taken_count = 0
    /\ last_taken = 0
    /\ rendered_count = 0
    /\ render_faults = 0
    /\ last_faulted = 0

\* mutant: the event is queued whether or not speech is enabled
speak_emotion_now_Unguarded(emotion) ==
    /\ submitted' = submitted + 1
    /\ LET count == emotion_count + 1
           event == [message |-> Text(TtsMessages[(count % Len(TtsMessages)) + 1],
                                      emotion),
                     seq |-> count]
       IN /\ emotion_count' = count
          /\ speak_queue' = Append(speak_queue, event)
          /\ UNCHANGED <<tts_pc, pending>>
    /\ UNCHANGED <<enabled, engine, immediate_message, immediate_count,
                   last_immediate, worker_vars>>

\* speak_emotion_now, lines 57-78: up to the first put; the event carries the
\* number of the call in place of the clock reading
speak_emotion_now(emotion) ==
    /\ submitted' = submitted + 1
    /\ IF ~enabled \/ ~engine
       THEN UNCHANGED <<speak_queue, emotion_count, tts_pc, pending>>
       ELSE LET count == emotion_count + 1
                event == [message |-> Text(TtsMessages[(count % Len(TtsMessages)) + 1],
                                           emotion),
                          seq |-> count]
            IN /\ emotion_count' = count
               /\ IF QueueFull(speak_queue, speak_queue_maxsize)
                  THEN /\ tts_pc' = "trim"
                       /\ pending' = event
                       /\ UNCHANGED speak_queue
                  ELSE /\ speak_queue' = Append(speak_queue, event)
                       /\ UNCHANGED <<tts_pc, pending>>
    /\ UNCHANGED <<enabled, engine, immediate_message, immediate_count,
                   last_immediate, worker_vars>>

\* speak_emotion_now, line 81: while self.speak_queue.qsize() > 10
TrimCheck ==
    /\ tts_pc = "trim"
    /\ tts_pc' = IF Len(speak_queue) > speak_queue_keep THEN "get" ELSE "put"
    /\ UNCHANGED <<enabled, engine, speak_queue, emotion_count, pending, submitted,
                   immediate_message, immediate_count, last_immediate, worker_vars>>
    /\ UNCHANGED <<ingest_vars, voice_vars, frame_vars, speech_vars>>

\* speak_emotion_now, lines 82-85: get_nowait; queue.Empty ends the call
TrimGet ==
    /\ tts_pc = "get"
    /\ IF speak_queue = <<>>
       THEN /\ tts_pc' = "idle"
            /\ pending' = NoEvent
            /\ UNCHANGED speak_queue
       ELSE /\ speak_queue' = Tail(speak_queue)
            /\ tts_pc' = "trim"
            /\ UNCHANGED pending
    /\ UNCHANGED <<enabled, engine, emotion_count, submitted,
                   immediate_message, immediate_count, last_immediate, worker_vars>>
    /\ UNCHANGED <<ingest_vars, voice_vars, frame_vars, speech_vars>>

\* speak_emotion_now, lines 83-85: the second put; queue.Full ends the call
TrimPut ==
    /\ tts_pc = "put"
    /\ speak_queue' = IF QueueFull(speak_queue, speak_queue_maxsize)
                      THEN speak_queue
                      ELSE Append(speak_queue, pending)
    /\ tts_pc' = "idle"
    /\ pending' = NoEvent
    /\ UNCHANGED <<enabled, engine, emotion_count, submitted,
                   immediate_message, immediate_count, last_immediate, worker_vars>>
    /\ UNCHANGED <<ingest_vars, voice_vars, frame_vars, speech_vars>>

\* ------------------------------------- MultimodalEmotionDetector (main loop)
change_threshold == 40000
face_change_threshold == 70000
voice_change_threshold == 50000
heartbeat_interval == 20
high_confidence_threshold == 85000
min_gap == 5

\* the clock reading (time.time(), in tenths of a second) when start() begins
StartTime == 30

\* execute_emotion_speaking, lines 196-205: the messages list
MainMessages ==
    <<"%s", "%s detected", "Emotion %s", "%s emotion", "Current emotion %s",
      "Feeling %s", "I see %s", "%s expression">>

FrameInit ==
    /\ loop_pc = "detect"
    /\ face_result = None
    /\ voice_result = None
    /\ final_emotion = NoFusion
    /\ frame_time = StartTime
    /\ frame_count = 0
    /\ test_index = 0
    /\ main_exception = ""

\* MultimodalEmotionDetector.__init__, lines 38-43
SpeechInit ==
    /\ main_current_emotion = "none"
    /\ last_spoken_time = 0
    /\ last_face_emotion = "none"
    /\ last_voice_emotion = "none"
    /\ emotion_speak_count = 0
    /\ should_speak = FALSE
    /\ speak_reason = ""
    /\ message = Text("", "none")

\* the face estimates tried with the classifier
FrameFaces ==
    {None, [emotion |-> "happy", confidence |-> One],
     [emotion |-> "sad", confidence |-> (5 * One) \div 8],
     [emotion |-> "angry", confidence |-> 0]}

\* the time from one frame to the next, in tenths of a second
TimeSteps == {min_gap, heartbeat_interval, heartbeat_interval + 10}

\* ------------------------------------------------------- FaceDetector
\* the deepface import succeeded
DEEPFACE_AVAILABLE == TRUE

\* what a frame holds for the face classifier: what the cascade does with it
\* ("raise", "none" found, "one" face), whether DeepFace.analyze raises on the
\* face region, and the dominant emotion and confidence it reports otherwise
FaceFrames ==
    [faces : {"raise", "none", "one"}, raised : BOOLEAN,
     emotion : {"happy", "neutral"}, confidence : {One, One \div 2}]

\* _fallback_analysis
fallback_analysis ==
    [emotion |-> "neutral", confidence |-> One \div 2, model |-> "Fallback"]

\* _analyze_with_deepface: DeepFace's answer, or the fallback when it raises
analyze_with_deepface(frame) ==
    IF frame.raised
    THEN fallback_analysis
    ELSE [emotion |-> frame.emotion, confidence |-> frame.confidence,
          model |-> "DeepFace"]

\* detect_emotion: None when the cascade raises or finds no face
detect_emotion(frame) ==
    IF frame.faces \in {"raise", "none"}
    THEN None
    ELSE IF DEEPFACE_AVAILABLE
         THEN analyze_with_deepface(frame)
         ELSE fallback_analysis

\* start(), lines 83-93: the frame's clock reading, its face estimate (the
\* face classifier's answer, or None) and the held voice estimate
\* (get_current_emotion)
Detect(faces, steps, maxFrames) ==
    /\ loop_pc = "detect"
    /\ frame_count < maxFrames
    /\ \E step \in steps : frame_time' = frame_time + step
    /\ \E face \in faces : face_result' = face
    /\ voice_result' = current_emotion
    /\ loop_pc' = "fuse"
    /\ UNCHANGED <<ingest_vars, voice_vars, final_emotion, frame_count, test_index, main_exception,
                   speech_vars, tts_vars>>

DetectFrame == Detect(FrameFaces, TimeSteps, MaxFrames)

\* start(), line 96: the fusion of the frame
FuseFrame ==
    /\ loop_pc = "fuse"
    /\ final_emotion' = fuse_emotions(face_result, voice_result)
    /\ loop_pc' = "speak"
    /\ UNCHANGED <<ingest_vars, voice_vars, face_result, voice_result, frame_time,
                   frame_count, test_index, main_exception, speech_vars, tts_vars>>

\* continuous_speak_emotion, lines 149-152
EmotionChanged(final, spoken) ==
    /\ final # NoFusion
    /\ spoken # final.emotion
    /\ final.confidence > change_threshold

\* mutant: the face's threshold is used for both estimates
EstimateChanged_OneThreshold(result, last, threshold) ==
    /\ result # None
    /\ last # result.emotion
    /\ result.confidence > face_change_threshold

\* continuous_speak_emotion, lines 156-157 and 163-164
EstimateChanged(result, last, threshold) ==
    /\ result # None
    /\ last # result.emotion
    /\ result.confidence > threshold

\* mutant: the time-based test also wants a new label
TimeBased_NewLabel(final, now, spoken_time) ==
    /\ now - spoken_time > heartbeat_interval
    /\ final # NoFusion
    /\ final.confidence > change_threshold
    /\ final.emotion # main_current_emotion

\* continuous_speak_emotion, lines 170-171
TimeBased(final, now, spoken_time) ==
    /\ now - spoken_time > heartbeat_interval
    /\ final # NoFusion
    /\ final.confidence > change_threshold

\* mutant: a high confidence announces whatever the time since the last one
HighConfidence_NoGap(final, now, spoken_time) ==
    /\ final # NoFusion
    /\ final.confidence > high_confidence_threshold

\* continuous_speak_emotion, lines 176-178
HighConfidence(final, now, spoken_time) ==
    /\ final # NoFusion
    /\ final.confidence > high_confidence_threshold
    /\ now - spoken_time > min_gap

\* mutant: the first test that holds gives the reason
SpeakReason_FirstWins(final, face, voice, now) ==
    IF EmotionChanged(final, main_current_emotion) THEN "emotion_changed"
    ELSE IF EstimateChanged(face, last_face_emotion, face_change_threshold)
    THEN "face_changed"
    ELSE IF EstimateChanged(voice, last_voice_emotion, voice_change_threshold)
    THEN "voice_changed"
    ELSE IF TimeBased(final, now, last_spoken_time) THEN "time_based"
    ELSE IF HighConfidence(final, now, last_spoken_time) THEN "high_confidence"
    ELSE ""

\* continuous_speak_emotion, lines 146-180: speak_reason after the five tests,
\* each overwriting the one before it; "" when none assigns it
SpeakReason(final, face, voice, now) ==
    LET reason1 == IF EmotionChanged(final, main_current_emotion)
                   THEN "emotion_changed" ELSE ""
        reason2 == IF EstimateChanged(face, last_face_emotion, face_change_threshold)
                   THEN "face_changed" ELSE reason1
        reason3 == IF EstimateChanged(voice, last_voice_emotion, voice_change_threshold)
                   THEN "voice_changed" ELSE reason2
        reason4 == IF TimeBased(final, now, last_spoken_time)
                   THEN "time_based" ELSE reason3
    IN IF HighConfidence(final, now, last_spoken_time)
       THEN "high_confidence" ELSE reason4

\* execute_emotion_speaking, lines 207-215: the message of the announcement
MainMessage(reason, emotion, count) ==
    IF reason = "face_changed" THEN Text("Face shows %s", emotion)
    ELSE IF reason = "voice_changed" THEN Text("Voice shows %s", emotion)
    ELSE IF reason = "high_confidence" THEN Text("Strong %s", emotion)
    ELSE Text(MainMessages[(count % Len(MainMessages)) + 1], emotion)

\* mutant: the time of the announcement is not recorded
execute_emotion_speaking_KeepsTime(final, reason, now) ==
    /\ emotion_speak_count' = emotion_speak_count + 1
    /\ message' = MainMessage(reason, final.emotion, emotion_speak_count + 1)
    /\ speak_emotion_now(final.emotion)
    /\ main_current_emotion' = final.emotion
    /\ UNCHANGED last_spoken_time

\* mutant: the announcement is made whenever the heartbeat interval has passed
Announces_OnHeartbeat(reason, final, now) ==
    reason # "" \/ now - last_spoken_time > heartbeat_interval

\* continuous_speak_emotion, line 183: if should_speak and final_emotion
Announces(reason, final, now) == reason # "" /\ final # NoFusion

\* execute_emotion_speaking
execute_emotion_speaking(final, reason, now) ==
    /\ emotion_speak_count' = emotion_speak_count + 1
    /\ message' = MainMessage(reason, final.emotion, emotion_speak_count + 1)
    /\ speak_emotion_now(final.emotion)
    /\ main_current_emotion' = final.emotion
    /\ last_spoken_time' = now

\* continuous_speak_emotion, with the announcement it makes
ContinuousSpeak ==
    /\ loop_pc = "speak"
    /\ tts_pc = "idle"
    /\ loop_pc' = "key"
    /\ IF ~enabled
       THEN /\ should_speak' = FALSE
            /\ speak_reason' = ""
            /\ UNCHANGED <<main_current_emotion, last_spoken_time, last_face_emotion,
                           last_voice_emotion, emotion_speak_count, message, tts_vars>>
       ELSE LET reason == SpeakReason(final_emotion, face_result, voice_result,
                                      frame_time)
            IN /\ speak_reason' = reason
               /\ should_speak' = (reason # "")
               /\ last_face_emotion' =
                      IF EstimateChanged(face_result, last_face_emotion,
                                         face_change_threshold)
                      THEN face_result.emotion ELSE last_face_emotion
               /\ last_voice_emotion' =
                      IF EstimateChanged(voice_result, last_voice_emotion,
                                         voice_change_threshold)
                      THEN voice_result.emotion ELSE last_voice_emotion
               /\ IF Announces(reason, final_emotion, frame_time)
                  THEN execute_emotion_speaking(final_emotion, reason, frame_time)
                  ELSE UNCHANGED <<main_current_emotion, last_spoken_time,
                                   emotion_speak_count, message, tts_vars>>
    /\ UNCHANGED <<ingest_vars, voice_vars, face_result, voice_result, final_emotion,
                   frame_time, frame_count, test_index, main_exception>>

\* speak_now, lines 122-131: up to the render on an engine of its own
speak_now(text) ==
    immediate_message' = IF engine /\ enabled' THEN text ELSE ""

\* toggle_speech, lines 145-150
toggle_speech ==
    /\ enabled' = ~enabled
    /\ speak_now(IF enabled' THEN "TTS ON" ELSE "TTS OFF")
    /\ loop_pc' = IF immediate_message' = "" THEN "detect" ELSE "toggle_say"
    /\ frame_count' = IF immediate_message' = "" THEN frame_count + 1 ELSE frame_count
    /\ UNCHANGED <<engine, speak_queue, emotion_count, tts_pc, pending, submitted,
                   immediate_count, last_immediate, worker_vars, test_index, main_exception>>

\* test_continuous_speech, line 154, and test_tts_functionality, line 235
TestEmotions == <<"happy", "sad", "angry", "surprise", "fear", "neutral", "disgust">>

\* test_tts_functionality, lines 232-233: the immediate announcement before the
\* submissions
test_tts_functionality ==
    /\ UNCHANGED <<enabled, engine, speak_queue, emotion_count, tts_pc, pending,
                   submitted, immediate_count, last_immediate, worker_vars,
                   frame_count>>
    /\ speak_now("Testing TTS now")
    /\ loop_pc' = IF immediate_message' = "" THEN "test" ELSE "test_say"
    /\ test_index' = 0
    /\ UNCHANGED main_exception

\* test_continuous_speech, lines 154-156: before the first submission
test_continuous_speech ==
    /\ loop_pc' = "test"
    /\ test_index' = 0
    /\ UNCHANGED main_exception
    /\ UNCHANGED <<tts_vars, frame_count>>

\* start(), lines 119-129: the key pressed, among keys; "" is no key
HandleKey(keys) ==
    /\ loop_pc = "key"
    /\ tts_pc = "idle"
    /\ \E key \in keys :
          IF key = "s" THEN toggle_speech
          ELSE IF key = "t" THEN test_tts_functionality
          ELSE IF key = "c" THEN test_continuous_speech
          ELSE IF key = "q"
          THEN /\ loop_pc' = "cleanup"
               /\ UNCHANGED <<tts_vars, test_index, main_exception, frame_count>>
          ELSE /\ key = ""
               /\ loop_pc' = "detect"
               /\ frame_count' = frame_count + 1
               /\ UNCHANGED <<tts_vars, test_index, main_exception>>
    /\ UNCHANGED <<ingest_vars, voice_vars, face_result, voice_result, final_emotion,
                   frame_time, speech_vars>>

\* speak_now, lines 126-131: what the render waits for
SpeakNowReady_BehindQueue(q, pcs) == q = <<>> /\ \A w \in Workers : pcs[w] = "get"

\* speak_now, lines 126-131: what the render waits for: nothing, the engine is
\* one that speak_now acquired for itself and the queue is not consulted
SpeakNowReady(q, pcs) == TRUE

\* speak_now, lines 130-135: the render ends, or raises and is reported
SpeakNowRender ==
    /\ loop_pc \in {"toggle_say", "test_say"}
    /\ SpeakNowReady(speak_queue, worker_pc)
    /\ \E rendered \in BOOLEAN :
          /\ immediate_count' = IF rendered THEN immediate_count + 1 ELSE immediate_count
          /\ last_immediate' = IF rendered THEN immediate_message ELSE last_immediate
    /\ immediate_message' = ""
    /\ loop_pc' = IF loop_pc = "toggle_say" THEN "detect" ELSE "test"
    /\ frame_count' = IF loop_pc = "toggle_say" THEN frame_count + 1 ELSE frame_count
    /\ UNCHANGED <<enabled, engine, speak_queue, emotion_count, tts_pc, pending,
                   submitted, worker_vars, test_index, main_exception>>
    /\ UNCHANGED <<ingest_vars, voice_vars, face_result, voice_result, final_emotion,
                   frame_time, speech_vars>>

FrameKey == HandleKey({"", "s"})

\* test_continuous_speech, lines 158-159, and test_tts_functionality, lines
\* 236-238: one submission of the loop over the emotions
TestSubmit ==
    /\ loop_pc = "test"
    /\ tts_pc = "idle"
    /\ test_index < Len(TestEmotions)
    /\ speak_emotion_now(TestEmotions[test_index + 1])
    /\ test_index' = test_index + 1
    /\ UNCHANGED main_exception
    /\ UNCHANGED <<ingest_vars, voice_vars, face_result, voice_result, final_emotion,
                   loop_pc, frame_time, frame_count, speech_vars>>

\* the loop over the emotions ends, and with it the frame (start(), line 129)
TestDone ==
    /\ loop_pc = "test"
    /\ tts_pc = "idle"
    /\ test_index = Len(TestEmotions)
    /\ loop_pc' = "detect"
    /\ frame_count' = frame_count + 1
    /\ UNCHANGED <<ingest_vars, voice_vars, face_result, voice_result, final_emotion,
                   frame_time, test_index, main_exception, speech_vars, tts_vars>>

\* cleanup, line 311: stop_capture, in its two steps
CleanupFlag == loop_pc = "cleanup" /\ StopFlag
CleanupStream == loop_pc = "cleanup" /\ StopStream

\* cleanup, line 312, and stop, line 172: speech is disabled
TtsStop ==
    /\ loop_pc = "cleanup"
    /\ st_pc = "done"
    /\ enabled' = FALSE
    /\ loop_pc' = "clear"
    /\ UNCHANGED <<engine, speak_queue, emotion_count, tts_pc, pending, submitted,
                   immediate_message, immediate_count, last_immediate, worker_vars>>
    /\ UNCHANGED <<ingest_vars, voice_vars, face_result, voice_result, final_emotion,
                   frame_time, frame_count, test_index, main_exception, speech_vars>>

\* clear_queue, lines 163-167, one event at a time; then stop, lines 174-178
ClearQueue ==
    /\ loop_pc = "clear"
    /\ IF speak_queue = <<>>
       THEN /\ loop_pc' = "stopped"
            /\ UNCHANGED speak_queue
       ELSE /\ speak_queue' = Tail(speak_queue)
            /\ UNCHANGED loop_pc
    /\ UNCHANGED <<enabled, engine, emotion_count, tts_pc, pending, submitted,
                   immediate_message, immediate_count, last_immediate, worker_vars>>
    /\ UNCHANGED <<ingest_vars, voice_vars, face_result, voice_result, final_emotion,
                   frame_time, frame_count, test_index, main_exception, speech_vars>>

\* start(), lines 78-138: a step of the loop raises an exception other than
\* KeyboardInterrupt at one of stages (the positions of the main thread); no
\* handler of the loop catches it, the finally clause runs cleanup and the
\* exception goes on to main()
FrameRaises(stages) ==
    /\ loop_pc \in stages
    /\ tts_pc = "idle"
    /\ main_exception = ""
    /\ main_exception' = loop_pc
    /\ loop_pc' = "cleanup"
    /\ UNCHANGED <<ingest_vars, voice_vars, face_result, voice_result, final_emotion,
                   frame_time, frame_count, test_index, speech_vars, tts_vars>>

\* queue.Queue: what get leaves in the queue
GetRest_Peek(q) == q

\* queue.Queue: what get leaves in the queue
GetRest(q) == Tail(q)

\* _speaking_worker, lines 97-105: the worker takes the head of the queue and
\* reads the flags; an empty queue (queue.Empty after the timeout) leaves it
\* where it is
WorkerGet(w, maxTakes) ==
    /\ worker_pc[w] = "get"
    /\ speak_queue # <<>>
    /\ taken_count < maxTakes
    /\ speak_queue' = GetRest(speak_queue)
    /\ taken_count' = taken_count + 1
    /\ last_taken' = Head(speak_queue).seq
    /\ IF engine /\ enabled
       THEN /\ worker_pc' = [worker_pc EXCEPT ![w] = "say"]
            /\ worker_event' = [worker_event EXCEPT ![w] = Head(speak_queue)]
            /\ speaking' = TRUE
       ELSE UNCHANGED <<worker_pc, worker_event, speaking>>
    /\ UNCHANGED <<enabled, engine, emotion_count, tts_pc, pending, submitted,
                   immediate_message, immediate_count, last_immediate,
                   rendered_count, render_faults, last_faulted>>
    /\ UNCHANGED <<ingest_vars, voice_vars, frame_vars, speech_vars>>

\* _speaking_worker, lines 107-108: the worker hands the text to the engine
\* and the render begins (engine.say, then into engine.runAndWait)
WorkerSay(w) ==
    /\ worker_pc[w] = "say"
    /\ worker_pc' = [worker_pc EXCEPT ![w] = "run"]
    /\ UNCHANGED <<enabled, engine, speak_queue, emotion_count, tts_pc, pending,
                   submitted, immediate_message, immediate_count, last_immediate,
                   worker_event, speaking, taken_count, last_taken, rendered_count,
                   render_faults, last_faulted>>
    /\ UNCHANGED <<ingest_vars, voice_vars, frame_vars, speech_vars>>

\* where a worker goes on after a render that raised
AfterRenderFault_Ends == "ended"

\* where a worker goes on after a render that raised (lines 109-112, then the
\* head of while True)
AfterRenderFault == "get"

\* _speaking_worker, lines 107-112: the render ends, or raises and is reported
WorkerRender(w, maxFaults) ==
    /\ worker_pc[w] = "run"
    /\ \E raised \in BOOLEAN :
          /\ raised => render_faults < maxFaults
          /\ render_faults' = IF raised THEN render_faults + 1 ELSE render_faults
          /\ last_faulted' = IF raised THEN w ELSE last_faulted
          /\ rendered_count' = IF raised THEN rendered_count ELSE rendered_count + 1
          /\ worker_pc' = [worker_pc EXCEPT
                              ![w] = IF raised THEN AfterRenderFault ELSE "get"]
    /\ worker_event' = [worker_event EXCEPT ![w] = NoEvent]
    /\ speaking' = FALSE
    /\ UNCHANGED <<enabled, engine, speak_queue, emotion_count, tts_pc, pending,
                   submitted, immediate_message, immediate_count, last_immediate,
                   taken_count, last_taken>>
    /\ UNCHANGED <<ingest_vars, voice_vars, frame_vars, speech_vars>>

Init == IngestInit /\ VoiceInit /\ FrameInit /\ SpeechInit /\ TtsInit({TRUE})

\* the callback's steps after its entry
CallbackNext == CallbackPut \/ CallbackGetNowait \/ CallbackPutAgain

\* the pipeline while it runs: the audio thread and the device thread
Next ==
    \/ StartRecording
    \/ StartStream
    \/ LoopCheck
    \/ LoopChunk
    \/ LoopEmpty
    \/ AudioCallback
    \/ CallbackPut
    \/ CallbackGetNowait
    \/ CallbackPutAgain

Spec == Init /\ [][Next]_vars

\* the pipeline with the main thread's stop_capture
ShutdownCallback == DeviceCallback(MaxShutdownBlocks, MaxOverflows)

NextShutdown ==
    \/ StartRecording
    \/ StartStream
    \/ LoopCheck
    \/ LoopChunk
    \/ LoopEmpty
    \/ ShutdownCallback
    \/ CallbackPut
    \/ CallbackGetNowait
    \/ CallbackPutAgain
    \/ StopFlag
    \/ StopStream

SpecShutdown == Init /\ [][NextShutdown]_vars

\* the classifier and the frames of the main loop
NextVoice ==
    \/ ProcessAudio

SpecVoice == Init /\ [][NextVoice]_vars

\* the decision cycles of the main loop, with the classifier at work: the
\* windows heard are loud ones, at two phases of the clock's cycle
FrameWindows == {w \in Windows : w.len >= min_samples /\ w.volume > 300}
FrameTimes == {t \in Times : t % 9 = 1}
FrameJitters == {Scores([i \in DOMAIN EmotionOrder |-> 0])}
HearWindow == Classify(FrameWindows, FrameTimes, FrameJitters, MaxFrameWindows)

\* pyttsx3 may be missing
InitTrigger ==
    IngestInit /\ VoiceInit /\ FrameInit /\ SpeechInit /\ TtsInit(BOOLEAN)

NextTrigger ==
    \/ DetectFrame
    \/ FuseFrame
    \/ ContinuousSpeak
    \/ FrameKey
    \/ SpeakNowRender
    \/ HearWindow

SpecTrigger == InitTrigger /\ [][NextTrigger]_vars

\* the main loop reading the classifier's estimate (get_current_emotion)
\* while the classifier analyses windows of full length, silent ones included
GetterWindows == {w \in Windows : w.len >= min_samples}
GetterHear == Classify(GetterWindows, FrameTimes, FrameJitters, MaxGetterWindows)
GetterKey == HandleKey({""})

NextGetter ==
    \/ DetectFrame
    \/ FuseFrame
    \/ ContinuousSpeak
    \/ GetterKey
    \/ GetterHear

SpecGetter == Init /\ [][NextGetter]_vars

\* the classifier on its own, long enough for its history to fill: windows
\* that are scored, and one too short to be, all in the first phase of the cycle
HistoryWindows == {w \in Windows : w.len < min_samples \/ ~Silent(w.volume)}
HistoryTimes == {t \in Times : CycleBelow(t, 2)}
HistoryHear == Classify(HistoryWindows, HistoryTimes, FrameJitters, MaxHistoryWindows)

SpecHistory == Init /\ [][HistoryHear]_vars

\* the classifier on windows whose descriptors may fail to compute
DescriptorWindows ==
    {[w EXCEPT !.raises = d] : w \in GetterWindows, d \in Descriptors \cup {""}}
DescriptorHear ==
    Classify(DescriptorWindows, FrameTimes, FrameJitters, MaxDescriptorWindows)

SpecDescriptors == Init /\ [][DescriptorHear]_vars

\* the classifier on unchanging audio: the same quiet window every time, the
\* clock advancing by the audio between two windows (a window of 3 seconds
\* of which 1 second is kept), each draw of the jitter all at 0 or with one
\* emotion at the top of the range and the others at the bottom
window_period == (target_samples - recent_samples) \div sample_rate
StaticClock == (processing_count * window_period) % cycle_seconds
StaticWindows == {w \in GetterWindows : ~Silent(w.volume) /\ w.volume <= 300}
StaticJitters ==
    {Scores([i \in DOMAIN EmotionOrder |-> 0])}
    \cup {Scores([i \in DOMAIN EmotionOrder |->
                      IF i = f THEN jitter_high ELSE jitter_low]) :
          f \in DOMAIN EmotionOrder}
StaticHear == Classify(StaticWindows, {StaticClock}, StaticJitters, MaxStaticWindows)

SpecStatic == Init /\ [][StaticHear]_vars

\* the decision loop, on frames without a face, reading the held estimate
\* while the classifier is given windows of every kind: too short, silent,
\* and scored
RejectHear == Classify(Windows, HistoryTimes, FrameJitters, MaxRejectWindows)
RejectFrame == Detect({None}, {min_gap}, MaxDispatchFrames)
RejectKey == HandleKey({""})

NextReject == RejectFrame \/ FuseFrame \/ ContinuousSpeak \/ RejectKey \/ RejectHear

SpecReject == Init /\ [][NextReject]_vars

\* the decision loop on unchanging estimates: the classifier speaks before
\* the first frame only, the face estimate of the first frame is that of
\* every frame, and the clock advances by nothing, by the least gap, by
\* the heartbeat interval, or by a tenth of a second more than these
SteadyFaces ==
    {None} \cup {[emotion |-> e, confidence |-> c] :
                 e \in {"angry", "sad"}, c \in {One \div 2, One}}
SteadySteps == {0, min_gap, min_gap + 1, heartbeat_interval, heartbeat_interval + 1}
SteadyWindows == {w \in GetterWindows : ~Silent(w.volume)}
SteadyFrame ==
    Detect(IF frame_count = 0 THEN SteadyFaces ELSE {face_result}, SteadySteps,
           MaxSteadyFrames)
SteadyHear ==
    /\ frame_count = 0
    /\ loop_pc = "detect"
    /\ Classify(SteadyWindows, FrameTimes, FrameJitters, MaxFrameWindows)
SteadyKey == HandleKey({""})

NextSteady == SteadyFrame \/ FuseFrame \/ ContinuousSpeak \/ SteadyKey \/ SteadyHear

SpecSteady == Init /\ [][NextSteady]_vars

\* the decision loop with the face classifier run on every frame
FaceFrame == Detect({detect_emotion(frame) : frame \in FaceFrames}, TimeSteps, MaxFrames)
FaceKey == HandleKey({""})

NextFace == FaceFrame \/ FuseFrame \/ ContinuousSpeak \/ FaceKey

SpecFace == Init /\ [][NextFace]_vars

\* the main loop with steps that raise: fusion, the evaluation of the
\* triggers, and the drawing, display and key handling that follow it
FrameFault == FrameRaises({"fuse", "speak", "key"})
LoopKey == HandleKey({"", "s", "q"})

NextLoop ==
    \/ DetectFrame
    \/ FuseFrame
    \/ ContinuousSpeak
    \/ LoopKey
    \/ SpeakNowRender
    \/ FrameFault
    \/ CleanupFlag
    \/ CleanupStream
    \/ TtsStop
    \/ ClearQueue

SpecLoop == Init /\ [][NextLoop]_vars

\* the dispatch of speech: the keys that submit events, and the workers; the
\* queue does not fill up in these runs (SpecOverflow has the runs where it
\* does)
BlankFrame == Detect({None}, {min_gap}, MaxDispatchFrames)
DispatchKey == HandleKey({"s", "t", "c", "q"})
DispatchGet == \E w \in Workers : WorkerGet(w, MaxTakes)
DispatchSay == \E w \in Workers : WorkerSay(w)
DispatchRender == \E w \in Workers : WorkerRender(w, MaxRenderFaults)

NextDispatch ==
    \/ BlankFrame
    \/ FuseFrame
    \/ ContinuousSpeak
    \/ DispatchKey
    \/ SpeakNowRender
    \/ TestSubmit
    \/ TestDone
    \/ DispatchGet
    \/ DispatchSay
    \/ DispatchRender
    \/ CleanupFlag
    \/ CleanupStream
    \/ TtsStop
    \/ ClearQueue

SpecDispatch == Init /\ [][NextDispatch]_vars

\* the dispatch queue up to its overflow: test_continuous_speech, key after
\* key, and the first worker; the second worker waits for the processor in
\* these behaviours, which are behaviours of the two workers as well
OverflowFrame == Detect({None}, {min_gap}, MaxOverflowFrames)
OverflowKey == HandleKey({"c"})
OverflowGet == WorkerGet(1, MaxOverflowTakes)
OverflowSay == WorkerSay(1)
OverflowRender == WorkerRender(1, 0)

NextOverflow ==
    \/ OverflowFrame
    \/ FuseFrame
    \/ ContinuousSpeak
    \/ OverflowKey
    \/ TestSubmit
    \/ TestDone
    \/ TrimCheck
    \/ TrimGet
    \/ TrimPut
    \/ OverflowGet
    \/ OverflowSay
    \/ OverflowRender

SpecOverflow == Init /\ [][NextOverflow]_vars

\* the loops under faults: the audio thread with iterations that raise, and
\* the workers with renders that raise, of the events of two announcements;
\* the handling of the first block may raise, and of the block that completes
\* the first window
FaultCallback == DeviceCallback(MaxFaultBlocks, 0)
FaultyBlocks == {0, target_samples \div chunk_size}
LoopFault == LoopRaises(FaultyBlocks)
FaultFrame == Detect({[emotion |-> "happy", confidence |-> One]},
                     {heartbeat_interval + 10}, MaxFaultFrames)
FaultKey == HandleKey({""})
FaultGet == \E w \in Workers : WorkerGet(w, MaxFaultTakes)
FaultSay == \E w \in Workers : WorkerSay(w)
FaultRender == \E w \in Workers : WorkerRender(w, MaxRenderFaults)

NextFaults ==
    \/ StartRecording
    \/ StartStream
    \/ LoopCheck
    \/ LoopChunk
    \/ LoopEmpty
    \/ LoopFault
    \/ FaultCallback
    \/ CallbackPut
    \/ FaultFrame
    \/ FuseFrame
    \/ ContinuousSpeak
    \/ FaultKey
    \/ FaultGet
    \/ FaultSay
    \/ FaultRender

SpecFaults == Init /\ [][NextFaults]_vars

\* the decision loop, the submissions of the key 'c' and the workers, with
\* speech switched off and on by the key 's'; every frame has a face
DisabledFrame == Detect({[emotion |-> "happy", confidence |-> One]},
                        {heartbeat_interval + 10}, MaxDisabledFrames)
DisabledKey == HandleKey({"", "s", "c"})
DisabledGet == \E w \in Workers : WorkerGet(w, MaxDisabledTakes)
DisabledSay == \E w \in Workers : WorkerSay(w)
DisabledRender == \E w \in Workers : WorkerRender(w, 0)

NextDisabled ==
    \/ DisabledFrame
    \/ FuseFrame
    \/ ContinuousSpeak
    \/ DisabledKey
    \/ SpeakNowRender
    \/ TestSubmit
    \/ TestDone
    \/ DisabledGet
    \/ DisabledSay
    \/ DisabledRender

SpecDisabled == Init /\ [][NextDisabled]_vars

\* the estimates tried with the fusion rule alone
FaceConfidences == {0, 15000, 30000, 50000, 90000, One}
VoiceConfidences == {35000, 60000, 70000, 90000, confidence_ceiling}
FaceInputs ==
    {None} \cup {[emotion |-> e, confidence |-> c] :
                 e \in Emotions, c \in FaceConfidences}
VoiceInputs ==
    {None} \cup {[emotion |-> e, confidence |-> c] :
                 e \in Emotions, c \in VoiceConfidences}

\* a frame whose two estimates have been taken
InitFusion ==
    /\ IngestInit /\ VoiceInit /\ SpeechInit /\ TtsInit({TRUE})
    /\ loop_pc = "fuse"
    /\ face_result \in FaceInputs
    /\ voice_result \in VoiceInputs
    /\ final_emotion = NoFusion
    /\ frame_time = StartTime
    /\ frame_count = 0
    /\ test_index = 0
    /\ main_exception = ""

SpecFusion == InitFusion /\ [][FuseFrame]_vars

\* the fusion of a frame and the evaluation of the triggers on its result
NextProvenance == FuseFrame \/ ContinuousSpeak

SpecProvenance == InitFusion /\ [][NextProvenance]_vars

\* ------------------------------------------------------------- claims

\* C1: the device callback never blocks: whenever a callback is in flight its
\* next queue operation can be taken at once, whatever the state of the queue
\* and of the consumer, and a callback makes at most three queue operations
\* (put, get_nowait, put).
C1_CallbackNeverBlocks ==
    /\ cb_pc # "idle" => ENABLED CallbackNext
    /\ cb_steps <= 3

\* a callback that found the queue full has run to its end
C1_Witness == cb_pc = "idle" /\ cb_steps = 3 /\ overflows >= 1

\* C2: whenever a callback that found the queue full returns, the block it
\* was given is the newest element of the queue.
C2_NewBlockIsNewest ==
    [][(cb_pc \in {"full", "got"} /\ cb_pc' = "idle")
        => (audio_queue' # <<>>
            /\ audio_queue'[Len(audio_queue')] = cb_chunk)]_vars

\* the consumer's step takes a block that fills the accumulator
FillingStep ==
    /\ at_pc = "get" /\ at_pc' = "loop" /\ audio_queue # <<>>
    /\ RunsLen(audio_buffer) + chunk_size >= target_samples

\* C3: each time the accumulator reaches target_samples a window is forwarded;
\* it holds exactly target_samples samples, the most recent ones consumed, and
\* the accumulator is left with exactly sample_rate samples, the most recent
\* ones; in every other state the accumulator is shorter than target_samples.
C3_WindowAndCarryOver ==
    [][/\ RunsLen(audio_buffer') < target_samples
       /\ FillingStep <=> Len(forwarded') = Len(forwarded) + 1
       /\ Len(forwarded') # Len(forwarded) =>
            LET w == forwarded'[Len(forwarded')].window
            IN /\ RunsLen(w) = target_samples
               /\ w = LastN(consumed', target_samples)
               /\ RunsLen(audio_buffer') = sample_rate
               /\ audio_buffer' = LastN(consumed', sample_rate)]_vars

\* two windows were forwarded, one of them across the gap of a dropped block
C3_Witness ==
    /\ Len(forwarded) = 2
    /\ RunsLen(audio_buffer) = sample_rate
    /\ \E i \in 1..2 : Len(forwarded[i].window) > 1

WindowStart(w) == w[1][1]
WindowEnd(w) == w[Len(w)][2]

\* the new input a cycle takes: whole blocks up to target_samples - sample_rate
AdvanceSamples ==
    chunk_size * ((target_samples - sample_rate + chunk_size - 1) \div chunk_size)

\* C4 as stated: with no block dropped, consecutive windows overlap by
\* sample_rate samples and start target_samples - sample_rate samples apart.
C4_ExactOverlap ==
    overflows = 0 =>
        \A i \in 1..(Len(forwarded) - 1) :
            /\ WindowStart(forwarded[i + 1].window) - WindowStart(forwarded[i].window)
                 = target_samples - sample_rate
            /\ WindowEnd(forwarded[i].window) - WindowStart(forwarded[i + 1].window)
                 = sample_rate

\* C4 (amended): with no block dropped, consecutive windows start
\* AdvanceSamples (32 blocks, 32768 samples) apart and overlap by
\* target_samples - AdvanceSamples (15232) samples.
C4_BlockAlignedAdvance ==
    overflows = 0 =>
        \A i \in 1..(Len(forwarded) - 1) :
            /\ WindowStart(forwarded[i + 1].window) - WindowStart(forwarded[i].window)
                 = AdvanceSamples
            /\ WindowEnd(forwarded[i].window) - WindowStart(forwarded[i + 1].window)
                 = target_samples - AdvanceSamples

\* two windows were forwarded and no block was dropped
C4_Witness == overflows = 0 /\ Len(forwarded) = 2

\* C5: every window is forwarded only after a block has been accepted since
\* the window before it: polling without new blocks forwards nothing.
C5_NoWindowWithoutNewBlocks ==
    \A i \in 1..Len(forwarded) : forwarded[i].fresh

\* a window was forwarded, no block has arrived since, and the consumer polls
\* the empty queue
C5_Witness ==
    /\ Len(forwarded) >= 1 /\ ~fresh
    /\ at_pc = "get" /\ audio_queue = <<>> /\ cb_pc = "idle"

\* C6: a window whose peak absolute amplitude is below the silence threshold
\* (0.005) is classified as none: silence never yields an estimate, in
\* particular never one labelled neutral
C6_SilenceYieldsNone ==
    heard.volume < silence_threshold => emotion_result = None

\* a silent window of full length has been classified while an earlier
\* estimate is held
C6_Witness ==
    /\ heard.len >= min_samples
    /\ heard.volume < silence_threshold
    /\ processing_count >= 2
    /\ current_emotion # None
    /\ emotion_result = None

Provenances ==
    {"agreement", "face_dominant", "voice_dominant", "face_only", "voice_only"}

\* an estimate with one of the 7 labels and a confidence of at most ceiling
WellFormed(estimate, ceiling) ==
    /\ estimate.emotion \in Emotions
    /\ estimate.confidence \in 0..ceiling

\* C7: every estimate of the voice classifier has a confidence in [0, 0.92] and
\* one of the 7 labels; fused with any face estimate of a confidence in [0, 1]
\* and one of the 7 labels (or with no face), the result has a confidence in
\* [0, 1], the label of one of its inputs and one of the 5 provenances
C7_EstimatesWellFormed ==
    /\ emotion_result # None => WellFormed(emotion_result, confidence_ceiling)
    /\ current_emotion # None => WellFormed(current_emotion, confidence_ceiling)
    /\ \A face \in FaceInputs :
          LET fused == fuse_emotions(face, current_emotion)
          IN fused # NoFusion =>
                /\ WellFormed(fused, One)
                /\ fused.emotion \in
                       ({face.emotion, current_emotion.emotion} \ {None.emotion})
                /\ fused.source \in Provenances

\* the classifier holds an estimate made after the history filled up, and a
\* face of full confidence agrees with it
C7_Witness ==
    /\ current_emotion # None
    /\ emotion_result = current_emotion
    /\ Len(emotion_sequence) > 2
    /\ current_emotion.confidence > One \div 2
    /\ \E face \in FaceInputs :
          /\ face # None
          /\ face.emotion = current_emotion.emotion
          /\ face.confidence = One

\* the frame's two estimates have been fused
Fused == loop_pc = "speak"

\* C8: fuse(none, none) is none; with exactly one estimate present the result
\* has that estimate's label, its confidence x 0.8 and the provenance face_only
\* or voice_only
C8_SingleSourceDiscount ==
    Fused =>
        /\ face_result = None /\ voice_result = None => final_emotion = NoFusion
        /\ face_result # None /\ voice_result = None =>
              final_emotion = [emotion |-> face_result.emotion,
                               confidence |-> (face_result.confidence * 8) \div 10,
                               source |-> "face_only"]
        /\ face_result = None /\ voice_result # None =>
              final_emotion = [emotion |-> voice_result.emotion,
                               confidence |-> (voice_result.confidence * 8) \div 10,
                               source |-> "voice_only"]

\* a face alone of confidence 0.9 has been fused to 0.72
C8_Witness ==
    /\ Fused
    /\ face_result # None /\ voice_result = None
    /\ face_result.confidence = 90000
    /\ final_emotion.confidence = 72000
    /\ final_emotion.source = "face_only"

\* both estimates are present
BothPresent == face_result # None /\ voice_result # None

\* face.confidence x 0.7 and voice.confidence x 0.3
FaceWeighted == (face_result.confidence * 7) \div 10
VoiceWeighted == (voice_result.confidence * 3) \div 10

\* C9: both estimates present with the same label give that label, the
\* provenance agreement and the confidence
\* min(1, face.confidence x 0.7 + voice.confidence x 0.3 + 0.2)
C9_AgreementConfidence ==
    Fused /\ BothPresent /\ face_result.emotion = voice_result.emotion =>
        /\ final_emotion.emotion = face_result.emotion
        /\ final_emotion.source = "agreement"
        /\ final_emotion.confidence =
               Min(One, FaceWeighted + VoiceWeighted + One \div 5)

\* face = {happy, 0.9} and voice = {happy, 0.6} have been fused to 1.0
C9_Witness ==
    /\ Fused
    /\ face_result = [emotion |-> "happy", confidence |-> 90000]
    /\ voice_result = [emotion |-> "happy", confidence |-> 60000]
    /\ final_emotion = [emotion |-> "happy", confidence |-> One,
                        source |-> "agreement"]

\* C10: both estimates present with different labels: the one of the larger
\* weighted confidence gives the label, its weighted value is the confidence
\* and the provenance is face_dominant or voice_dominant; equal weighted
\* values give the voice's
C10_DominantSource ==
    Fused /\ BothPresent /\ face_result.emotion # voice_result.emotion =>
        /\ FaceWeighted > VoiceWeighted =>
              final_emotion = [emotion |-> face_result.emotion,
                               confidence |-> FaceWeighted,
                               source |-> "face_dominant"]
        /\ FaceWeighted <= VoiceWeighted =>
              final_emotion = [emotion |-> voice_result.emotion,
                               confidence |-> VoiceWeighted,
                               source |-> "voice_dominant"]

\* a face and a voice of different labels and equal weighted confidences have
\* been fused, and the voice won
C10_Witness ==
    /\ Fused /\ BothPresent
    /\ face_result.emotion # voice_result.emotion
    /\ FaceWeighted = VoiceWeighted
    /\ FaceWeighted > 0
    /\ final_emotion.emotion = voice_result.emotion
    /\ final_emotion.source = "voice_dominant"

\* a decision cycle: continuous_speak_emotion is called and returns
CycleStep == loop_pc = "speak" /\ loop_pc' = "key"

\* the decision cycle announces
CycleFires == CycleStep /\ emotion_speak_count' # emotion_speak_count

\* the reasons, in the order of their tests
ReasonOrder ==
    <<"emotion_changed", "face_changed", "voice_changed", "time_based",
      "high_confidence">>

\* the tests that hold for the frame, by their number in the order
Holding ==
    {i \in 1..5 :
        \/ i = 1 /\ final_emotion # NoFusion
                 /\ final_emotion.emotion # main_current_emotion
                 /\ final_emotion.confidence > 40000
        \/ i = 2 /\ face_result # None
                 /\ face_result.emotion # last_face_emotion
                 /\ face_result.confidence > 70000
        \/ i = 3 /\ voice_result # None
                 /\ voice_result.emotion # last_voice_emotion
                 /\ voice_result.confidence > 50000
        \/ i = 4 /\ final_emotion # NoFusion
                 /\ final_emotion.confidence > 40000
                 /\ frame_time - last_spoken_time > 20
        \/ i = 5 /\ final_emotion # NoFusion
                 /\ final_emotion.confidence > 85000
                 /\ frame_time - last_spoken_time > 5}

\* C11: in a decision cycle (speech enabled) where one or several of the five
\* tests hold, an announcement is made and the one reason recorded for it is
\* that of the last test that holds in the order emotion_changed, face_changed,
\* voice_changed, time_based, high_confidence
C11_LastReasonWins ==
    [][CycleStep /\ enabled /\ Holding # {}
          => /\ CycleFires
             /\ \E i \in Holding :
                   /\ \A j \in Holding : j <= i
                   /\ speak_reason' = ReasonOrder[i]]_vars

\* the second announcement was made for a new label, a short time after the
\* first, and its reason is that of the face test, which comes later
C11_Witness ==
    /\ loop_pc = "key"
    /\ emotion_speak_count = 2
    /\ Len(speak_queue) = 2
    /\ speak_queue[1].message.emotion # speak_queue[2].message.emotion
    /\ final_emotion.confidence > 40000
    /\ speak_reason = "face_changed"

\* C12: in a decision cycle (speech enabled) with a fused result of confidence
\* above 0.4 and the last announcement more than 2 s ago, an announcement is
\* made even if no label changed; its reason is time_based unless the
\* high_confidence test holds too
C12_HeartbeatFires ==
    [][CycleStep /\ enabled /\ final_emotion # NoFusion
          /\ final_emotion.confidence > 40000
          /\ frame_time - last_spoken_time > 20
          => /\ CycleFires
             /\ speak_reason' = IF final_emotion.confidence > 85000
                                THEN "high_confidence" ELSE "time_based"]_vars

\* the second announcement repeats the label of the first, 3 s after it, for
\* a fused confidence of 0.5, with the reason time_based
C12_Witness ==
    /\ loop_pc = "key"
    /\ emotion_speak_count = 2
    /\ Len(speak_queue) = 2
    /\ speak_queue[1].message.emotion = speak_queue[2].message.emotion
    /\ final_emotion.confidence = 50000
    /\ last_spoken_time = frame_time
    /\ frame_time = StartTime + heartbeat_interval + 10 + heartbeat_interval + 10
    /\ speak_reason = "time_based"

\* C13: a decision cycle with no fused result makes no announcement and
\* submits no event, whatever the clock and the controller's state: the count,
\* the last spoken label and the time of the last announcement are unchanged
C13_NoFusedResultNoSpeech ==
    [][CycleStep /\ final_emotion = NoFusion
          => UNCHANGED <<emotion_speak_count, main_current_emotion, last_spoken_time,
                         submitted, speak_queue, emotion_count>>]_vars

\* a cycle with no fused result has ended, more than 2 s after an announcement
C13_Witness ==
    /\ loop_pc = "key"
    /\ enabled
    /\ final_emotion = NoFusion
    /\ emotion_speak_count = 1
    /\ frame_time - last_spoken_time > 20

C15_EventTextIsMessage ==
    [][CycleFires /\ engine
          => speak_queue'[Len(speak_queue')].message = message']_vars

\* C16 as stated: in every decision cycle where the face (voice) estimate is
\* present, its label differs from the last face (voice) label and its
\* confidence is above 0.7 (0.5), the last face (voice) label is the
\* estimate's label after the cycle
C16_LabelsFollowEveryCycle ==
    [][CycleStep =>
          /\ face_result # None /\ face_result.emotion # last_face_emotion
                /\ face_result.confidence > 70000
                => last_face_emotion' = face_result.emotion
          /\ voice_result # None /\ voice_result.emotion # last_voice_emotion
                /\ voice_result.confidence > 50000
                => last_voice_emotion' = voice_result.emotion]_vars

\* C16, amended: the same in every decision cycle made while speech is enabled
C16_LabelsFollowEnabledCycle ==
    [][CycleStep /\ enabled =>
          /\ face_result # None /\ face_result.emotion # last_face_emotion
                /\ face_result.confidence > 70000
                => last_face_emotion' = face_result.emotion
          /\ voice_result # None /\ voice_result.emotion # last_voice_emotion
                /\ voice_result.confidence > 50000
                => last_voice_emotion' = voice_result.emotion]_vars

\* a cycle has taken over the labels of a face and of a voice that differ
C16_Witness ==
    /\ loop_pc = "key"
    /\ face_result # None /\ voice_result # None
    /\ face_result.emotion # voice_result.emotion
    /\ last_face_emotion = face_result.emotion
    /\ last_voice_emotion = voice_result.emotion

\* ---- the dispatch of speech
\* a worker dequeues an event in this step
TakeStep == taken_count' # taken_count

\* a worker's render ends in this step without raising
RenderStep == rendered_count' # rendered_count

\* the events of the queue are numbered in the order of their submission
QueueInOrder ==
    \A i \in 1..Len(speak_queue) : \A j \in 1..Len(speak_queue) :
        i < j => speak_queue[i].seq < speak_queue[j].seq

OverflowEnds == tts_pc # "idle" /\ tts_pc' = "idle"

\* C18: when an event is submitted while the 50-slot queue is full, the
\* submission ends with the new event enqueued, last in the queue and behind at
\* most the 10 most recent of the events queued before it; the new event is
\* never the one dropped, and the queue never holds more than 50 events.
C18_OverflowKeepsNewEvent ==
    [][/\ Len(speak_queue) <= speak_queue_maxsize
       /\ OverflowEnds =>
              /\ speak_queue' # <<>>
              /\ speak_queue'[Len(speak_queue')] = pending
              /\ Len(speak_queue') <= speak_queue_keep + 1
              /\ QueueInOrder']_vars

\* the main thread is inside speak_now, at its render
InSpeakNow == loop_pc \in {"toggle_say", "test_say"}

LoopFaultStep == loop_faults' # loop_faults

\* a render of a worker raises in this step
RenderFaultStep == render_faults' # render_faults

\* no fault has ended a loop, and the audio thread can go on: at the head of
\* its loop it can test the flag, and with a block queued it can handle it
LoopsAlive ==
    /\ \A w \in Workers : worker_pc[w] \in {"get", "say", "run"}
    /\ loop_faults > 0 =>
           /\ recording
           /\ at_pc \in {"loop", "get"}
           /\ at_pc = "loop" => ENABLED LoopCheck
           /\ (at_pc = "get" /\ audio_queue # <<>>) => ENABLED LoopChunk

\* C20: an exception raised while the audio thread handles a block, or while a
\* worker renders an event, is confined to that iteration. The step that
\* raises takes the loop back to its head with the queues, the flags and the
\* other threads as they were (the block, or the event, of the iteration is
\* spent); no fault ends a loop; and the audio thread can go on: at the head
\* of its loop it can test the flag, and with a block queued it can handle it.
C20_FaultsAreConfined ==
    /\ [][/\ LoopFaultStep =>
                /\ at_pc = "get" /\ at_pc' = "loop"
                /\ audio_queue' = Tail(audio_queue)
                /\ UNCHANGED <<recording, stream, forwarded, cb_pc, voice_vars,
                               frame_vars, speech_vars, tts_vars>>
          /\ RenderFaultStep =>
                /\ worker_pc[last_faulted'] = "run"
                /\ worker_pc' = [worker_pc EXCEPT ![last_faulted'] = "get"]
                /\ UNCHANGED <<speak_queue, enabled, engine, tts_pc, pending,
                               rendered_count, ingest_vars, voice_vars, frame_vars,
                               speech_vars>>]_vars
    /\ []LoopsAlive

\* after an iteration that raised, the audio thread handled later blocks and
\* forwarded a window (the blocks whose handling may raise come no later than
\* the first window); the worker whose render raised took a later event and
\* renders it
C20_Witness ==
    /\ loop_faults >= 1
    /\ Len(forwarded) = 1
    /\ last_faulted \in Workers
    /\ worker_pc[last_faulted] = "run"

\* ---- the main loop under faults
\* a step of the main loop raises in this step
FrameFaultStep == main_exception' # main_exception

\* C21: an exception raised inside one iteration of the decision loop does not
\* end the loop: the step that raises takes the main thread to the head of the
\* loop, where the next cycle begins.
C21_LoopSurvivesFault ==
    [][FrameFaultStep => loop_pc' = "detect"]_vars

\* ---- the held voice estimate
\* the main thread reads the held voice estimate in this step
GetterStep == loop_pc = "detect" /\ loop_pc' = "fuse"

\* C22: the getter returns exactly the outcome of the most recently completed
\* classification (none before the first one): what the main thread reads is
\* the result of the classifier's last analysis.
C22_GetterReturnsLastOutcome ==
    [][GetterStep => voice_result' = emotion_result]_vars



\* a worker starts a render: it hands the text it took to the engine
SayStep == \E w \in Workers : worker_pc[w] = "say" /\ worker_pc'[w] = "run"

\* C23: once shutdown has run to its end (the capture's flag cleared, the stream
\* stopped, speech disabled, the dispatch queue emptied), the queue is empty
\* and no worker starts rendering an event that was queued before shutdown
C23_NothingRendersAfterShutdown ==
    /\ [](loop_pc = "stopped" => speak_queue = <<>> /\ ~recording /\ ~enabled)
    /\ [][loop_pc = "stopped" => ~SayStep]_vars


\* C24: a frame whose face analysis failed gives no face estimate: every
\* estimate that start() receives from the face classifier and hands to
\* fusion is an answer of the analysis itself, never a substitute
C24_NoSubstituteFaceEstimate ==
    [][GetterStep => face_result' = None \/ face_result'.model = "DeepFace"]_vars


\* the workers inside engine.say / engine.runAndWait of the one engine
Rendering == {w \in Workers : worker_pc[w] = "run"}

\* C25: at most one worker at a time is rendering on the engine
C25_RenderingIsSerialized == Cardinality(Rendering) <= 1


\* a classification that scores its window and produces an estimate
ScoringStep == processing_count' = processing_count + 1 /\ emotion_result' # None

\* the two most recent entries of the history are the same label
TrailingRepeat(seq) == Len(seq) >= 2 /\ seq[Len(seq)] = seq[Len(seq) - 1]

\* C26: a classification damps the most recent label and raises the others
\* exactly when the history it starts from ends with the same label twice
C26_DampedOnTrailingRepeat ==
    [][ScoringStep => (Repeated(emotion_sequence) <=> TrailingRepeat(emotion_sequence))]_vars


\* the history after a step is the history before it with label appended and,
\* beyond 10 entries, without its oldest entry
Appended(old, new, label) ==
    /\ Len(new) = Min(Len(old) + 1, 10)
    /\ new[Len(new)] = label
    /\ \A i \in 1..(Len(new) - 1) : new[i] = old[i + Len(old) + 1 - Len(new)]

\* C27: the label history never exceeds 10 entries; a classification that
\* produces an estimate appends its label as the newest entry and evicts
\* only the oldest entry, in order; any other step leaves the history alone
C27_HistoryKeepsLastTen ==
    /\ [](Len(emotion_sequence) <= 10)
    /\ [][IF ScoringStep
          THEN Appended(emotion_sequence, emotion_sequence', emotion_result'.emotion)
          ELSE emotion_sequence' = emotion_sequence]_vars

\* more than 10 estimates were produced, of more than one label
C27_Witness ==
    /\ processing_count > 10
    /\ Len(emotion_sequence) = 10
    /\ emotion_sequence[1] # emotion_sequence[10]
    /\ emotion_sequence[9] # emotion_sequence[10]


\* a classification of a window that is not silent, one of whose descriptors
\* failed to compute
FailedDescriptorStep ==
    /\ processing_count' = processing_count + 1
    /\ heard'.raises # ""
    /\ ~Silent(heard'.volume)

\* C28: a failure in the computation of a descriptor does not abort the
\* classification: the window still gets its estimate
C28_DescriptorFailureIsLocal ==
    [][FailedDescriptorStep => emotion_result' # None]_vars


\* the classifications that span one cycle of the clock's phases
CycleWindows == cycle_seconds \div window_period + 1

\* two successive labels of the history differ
LabelChanged ==
    \E i \in 2..Len(emotion_sequence) : emotion_sequence[i] # emotion_sequence[i - 1]

\* C29: on unchanging audio that is not silent the label does not stay the
\* same: whatever the jitter drawn, once the classifications span the cycle
\* of phases some label differs from the one before it
C29_StaticInputLabelChanges == processing_count >= CycleWindows => LabelChanged


\* the key 's' is handled: toggle_speech flips the flag
ToggleStep == loop_pc = "key" /\ enabled' # enabled

\* C30: every toggle hands the new status to the speak-now path to be
\* spoken at once, "TTS ON" after switching on and "TTS OFF" after
\* switching off
C30_ToggleSpeaksNewStatus ==
    [][ToggleStep =>
          immediate_message' = (IF enabled' THEN "TTS ON" ELSE "TTS OFF")]_vars


\* the window last passed to the classifier was too short or silent
Rejected(window) == window.len < 1000 \/ window.volume < 5

\* C31: a window rejected as too short or as silent changes neither the held
\* estimate nor the label history; so once an estimate has been produced the
\* held estimate is never none again and the getter returns an estimate
C31_RejectedWindowChangesNothing ==
    /\ [][Rejected(heard') => UNCHANGED <<current_emotion, emotion_sequence>>]_vars
    /\ [][current_emotion # None => current_emotion' # None]_vars
    /\ [][GetterStep /\ emotion_sequence # <<>> => voice_result' # None]_vars

\* an estimate was produced, silent windows followed, and the main thread has
\* read the estimate still held
C31_Witness ==
    /\ emotion_sequence # <<>>
    /\ heard.len >= 1000
    /\ heard.volume < 5
    /\ emotion_result = None
    /\ processing_count = 3
    /\ Len(emotion_sequence) = 1
    /\ loop_pc = "fuse"
    /\ voice_result = current_emotion
    /\ voice_result # None


\* the cycle makes an announcement, and it is not the first one
NextAnnouncement ==
    emotion_speak_count >= 1 /\ emotion_speak_count' = emotion_speak_count + 1

\* C32: with the same face, voice and fused estimates in every cycle, an
\* announcement comes more than 0.5 s after the one before it, and more
\* than 2 s after it unless the fused confidence is above 0.85; so no
\* announcement is made at the clock reading of the one before it
C32_SteadyAnnouncementsAreSpaced ==
    [][NextAnnouncement =>
          /\ frame_time - last_spoken_time > 5
          /\ final_emotion.confidence <= 85000 => frame_time - last_spoken_time > 20]_vars

\* a second announcement made on a high confidence, 0.6 s after the first
C32_Witness ==
    /\ emotion_speak_count = 2
    /\ speak_reason = "high_confidence"
    /\ final_emotion.confidence > 85000
    /\ last_spoken_time = frame_time
    /\ frame_time = StartTime + 6


\* the fused result comes from one estimate, alone or dominant
FromOneSource ==
    final_emotion.source \in {"face_only", "voice_only", "face_dominant", "voice_dominant"}

\* C33: a fused result that comes from one estimate never has a confidence
\* above 0.85, so the reason high_confidence is given only to a result on
\* which face and voice agree
C33_HighConfidenceNeedsAgreement ==
    /\ FromOneSource => final_emotion.confidence <= 85000
    /\ speak_reason = "high_confidence" => final_emotion.source = "agreement"

\* an announcement was made for the reason high_confidence
C33_Witness ==
    /\ speak_reason = "high_confidence"
    /\ should_speak
    /\ emotion_speak_count = 1
    /\ message.template = "Strong %s"
    /\ final_emotion.source = "agreement"
    /\ final_emotion.confidence > 85000


\* the controller's record of what it announced
ControllerState ==
    <<main_current_emotion, last_spoken_time, last_face_emotion, last_voice_emotion,
      emotion_speak_count>>

C35_StoppedStaysStopped == st_pc = "done" => ~recording

====
